---- MODULE Spec2Model ----
(***************************************************************************)
(* Event-judging application: the relational schema with its row-level     *)
(* security policies (001_judging_system_schema.sql), the                   *)
(* send-judge-invitation edge function, and the client state container     *)
(* (AppProvider: local-storage mirror and auth session).                    *)
(***************************************************************************)
EXTENDS Integers, Sequences, FiniteSets, TLC

VARIABLES
    \* the database (001_judging_system_schema.sql)
    db,        \* table name -> set of rows
    last,      \* outcome of the last SQL command a caller issued
    \* send-judge-invitation (index.ts)
    req,       \* the request being served
    fnPc,      \* "idle", "json" (awaiting req.json()) or "done"
    bodyUsed,  \* whether the request body has been read
    responses, \* the responses returned for req
    console,   \* the lines logged while serving req
    \* AppProvider: the local-storage mirror, one provider per tab
    storage,   \* localStorage: key -> NULL or <<text>>
    tabPc,     \* tab -> "unmounted", "mounted" or "crashed"
    mem,       \* tab -> key -> the collection held in React state
    dirty,     \* tab -> whether the saveData effect is due
    lastSaver, \* the tab whose saveData ran last (0: none)
    edits,     \* tab -> number of changes made through the setters
    \* AppProvider: the auth session of one tab
    user,      \* the user held in React state: NULL or <<profile id>>
    session,   \* the Supabase session: NULL or <<user id>>
    initPc,    \* initAuth: "start", "getSession", "profile" or "done"
    initFor,   \* the user id initAuth is fetching the profile of
    fetches,   \* profile fetches started by SIGNED_IN callbacks, in flight
    lastEvent, \* the last auth event delivered to the callback
    logoutPc,  \* logout: "idle" or "signOut" (awaiting auth.signOut())
    loading    \* the loading flag

dbVars == <<db, last>>
fnVars == <<req, fnPc, bodyUsed, responses, console>>
mirrorVars == <<storage, tabPc, mem, dirty, lastSaver, edits>>
authVars == <<user, session, initPc, initFor, fetches, lastEvent, logoutPc, loading>>
vars == <<dbVars, fnVars, mirrorVars, authVars>>

(***************************************************************************)
(* SQL values.  A column value is NULL (the empty tuple) or <<x>>.          *)
(***************************************************************************)
NULL == <<>>

Some(x) == <<x>>

\* SQL "a = b" used as a condition: unknown (a NULL operand) does not pass.
SqlEq(a, b) == a # NULL /\ b # NULL /\ a = b

(***************************************************************************)
(* The parts of the system a specification leaves alone stay as they are    *)
(* before anything has run.                                                 *)
(***************************************************************************)
Keys == {"events", "teams", "judges", "categories", "evaluations"}

Tabs == {1, 2}

NoRequest == [method |-> "none", body |-> [kind |-> "none"]]

DbIdle ==
    /\ db = [t \in {} |-> {}]
    /\ last = [table |-> "none"]

FnIdle ==
    /\ req = NoRequest
    /\ fnPc = "idle"
    /\ bodyUsed = FALSE
    /\ responses = <<>>
    /\ console = <<>>

MirrorIdle ==
    /\ storage = [k \in Keys |-> NULL]
    /\ tabPc = [i \in Tabs |-> "unmounted"]
    /\ mem = [i \in Tabs |-> [k \in Keys |-> <<>>]]
    /\ dirty = [i \in Tabs |-> FALSE]
    /\ lastSaver = 0
    /\ edits = [i \in Tabs |-> 0]

\* What a step of one part leaves alone.
DbFrame == UNCHANGED <<fnVars, mirrorVars, authVars>>

FnFrame == UNCHANGED <<dbVars, mirrorVars, authVars>>

MirrorFrame == UNCHANGED <<dbVars, fnVars, authVars>>

AuthFrame == UNCHANGED <<dbVars, fnVars, mirrorVars>>

AuthIdle ==
    /\ user = NULL
    /\ session = NULL
    /\ initPc = "start"
    /\ initFor = NULL
    /\ fetches = <<>>
    /\ lastEvent = "none"
    /\ logoutPc = "idle"
    /\ loading = TRUE

\* Model bound: rows a table may hold at once (events, scoring_rounds, scores).
MaxRows == 2

\* Model bound: rows each of the other tables may hold at once.
MaxChildRows == 1

Tables ==
    {"events", "categories", "teams", "judges", "judge_assignments",
     "scoring_rounds", "scores", "normalized_scores", "final_results"}

Cap(t) ==
    IF t \in {"events", "scoring_rounds", "scores"} THEN MaxRows ELSE MaxChildRows

(***************************************************************************)
(* Callers: the anon role (auth.uid() is NULL) and authenticated users.     *)
(***************************************************************************)
Anon == [role |-> "anon", uid |-> NULL]

User(n) == [role |-> "authenticated", uid |-> Some(n)]

(***************************************************************************)
(* The schema's constraints.                                                *)
(***************************************************************************)
\* REFERENCES clauses.  events.created_by REFERENCES profiles(id) points at
\* a table this migration does not create; every auth.uid() has a profile.
ForeignKeys ==
    { [table |-> "categories", column |-> "event_id", ref |-> "events", onDelete |-> "CASCADE"],
      [table |-> "teams", column |-> "event_id", ref |-> "events", onDelete |-> "CASCADE"],
      [table |-> "teams", column |-> "category_id", ref |-> "categories", onDelete |-> "NO ACTION"],
      [table |-> "judges", column |-> "event_id", ref |-> "events", onDelete |-> "CASCADE"],
      [table |-> "judge_assignments", column |-> "judge_id", ref |-> "judges", onDelete |-> "CASCADE"],
      [table |-> "judge_assignments", column |-> "category_id", ref |-> "categories", onDelete |-> "CASCADE"],
      [table |-> "judge_assignments", column |-> "team_id", ref |-> "teams", onDelete |-> "CASCADE"],
      [table |-> "scoring_rounds", column |-> "event_id", ref |-> "events", onDelete |-> "CASCADE"],
      [table |-> "scores", column |-> "judge_id", ref |-> "judges", onDelete |-> "CASCADE"],
      [table |-> "scores", column |-> "team_id", ref |-> "teams", onDelete |-> "CASCADE"],
      [table |-> "scores", column |-> "category_id", ref |-> "categories", onDelete |-> "CASCADE"],
      [table |-> "scores", column |-> "round_id", ref |-> "scoring_rounds", onDelete |-> "CASCADE"],
      [table |-> "normalized_scores", column |-> "judge_id", ref |-> "judges", onDelete |-> "CASCADE"],
      [table |-> "normalized_scores", column |-> "team_id", ref |-> "teams", onDelete |-> "CASCADE"],
      [table |-> "normalized_scores", column |-> "round_id", ref |-> "scoring_rounds", onDelete |-> "CASCADE"],
      [table |-> "final_results", column |-> "event_id", ref |-> "events", onDelete |-> "CASCADE"],
      [table |-> "final_results", column |-> "team_id", ref |-> "teams", onDelete |-> "CASCADE"] }

\* UNIQUE constraints (the primary keys are kept by FreshId).
Uniques ==
    { [table |-> "judges", columns |-> {"access_token"}],
      [table |-> "judge_assignments", columns |-> {"judge_id", "team_id", "round_number"}],
      [table |-> "scoring_rounds", columns |-> {"event_id", "round_number"}],
      [table |-> "scores", columns |-> {"judge_id", "team_id", "round_id", "criterion_name"}],
      [table |-> "normalized_scores", columns |-> {"judge_id", "team_id", "round_id"}],
      [table |-> "final_results", columns |-> {"event_id", "team_id"}] }

\* NOT NULL columns among the modelled ones.
NotNulls ==
    { [table |-> "judges", column |-> "access_token"],
      [table |-> "scoring_rounds", column |-> "round_number"],
      [table |-> "scores", column |-> "criterion_name"],
      [table |-> "scores", column |-> "score"] }

\* ScoreCheck with the upper bound forgotten.
ScoreCheckNoUpper(v) == v = NULL \/ v[1] >= 0

\* CHECK (score >= 0 AND score <= 10): a CHECK passes unless it is false,
\* so it passes on NULL.
ScoreCheck(v) == v = NULL \/ (v[1] >= 0 /\ v[1] <= 10)

ChecksOk(t, row) == t = "scores" => ScoreCheck(row.score)

NotNullOk(t, row) ==
    \A n \in NotNulls : n.table = t => row[n.column] # NULL

\* MATCH SIMPLE on one column: a NULL reference is not checked.
FkOk(d, t, row) ==
    \A fk \in ForeignKeys :
        fk.table = t =>
            \/ row[fk.column] = NULL
            \/ \E p \in d[fk.ref] : p.id = row[fk.column]

\* A unique constraint is violated by another row that agrees on every
\* column of the key, none of them NULL (NULLs are distinct).
UniqueOk(d, t, row) ==
    \A u \in Uniques :
        u.table = t =>
            ~ \E r \in d[t] :
                /\ r.id # row.id
                /\ \A c \in u.columns : SqlEq(r[c], row[c])

ConstraintsOk(d, t, row) ==
    /\ NotNullOk(t, row)
    /\ ChecksOk(t, row)
    /\ FkOk(d, t, row)
    /\ UniqueOk(d, t, row)

\* id uuid PRIMARY KEY DEFAULT gen_random_uuid(): an id no row of the table has.
FreshId(d, t) ==
    Some(CHOOSE n \in 1..(Cap(t) + 1) :
            /\ ~ \E r \in d[t] : r.id = Some(n)
            /\ \A m \in 1..(n - 1) : \E r \in d[t] : r.id = Some(m))

(***************************************************************************)
(* Row-level security.  Every table has RLS enabled; the policies are       *)
(* permissive, so a command passes when one applicable policy passes.       *)
(***************************************************************************)
Policies ==
    { [name |-> "Users can view their events", table |-> "events", cmd |-> "SELECT",
       roles |-> {"authenticated"}, using |-> "own", check |-> "none"],
      [name |-> "Users can insert their events", table |-> "events", cmd |-> "INSERT",
       roles |-> {"authenticated"}, using |-> "none", check |-> "own"],
      [name |-> "Users can update their events", table |-> "events", cmd |-> "UPDATE",
       roles |-> {"authenticated"}, using |-> "own", check |-> "own"],
      [name |-> "Users can delete their events", table |-> "events", cmd |-> "DELETE",
       roles |-> {"authenticated"}, using |-> "own", check |-> "none"],
      [name |-> "Users can manage categories for their events", table |-> "categories", cmd |-> "ALL",
       roles |-> {"authenticated"}, using |-> "event", check |-> "none"],
      [name |-> "Users can manage teams for their events", table |-> "teams", cmd |-> "ALL",
       roles |-> {"authenticated"}, using |-> "event", check |-> "none"],
      [name |-> "Users can manage judges for their events", table |-> "judges", cmd |-> "ALL",
       roles |-> {"authenticated"}, using |-> "event", check |-> "none"],
      [name |-> "Judges can view their own profile by token", table |-> "judges", cmd |-> "SELECT",
       roles |-> {"anon", "authenticated"}, using |-> "true", check |-> "none"],
      [name |-> "Users can manage judge assignments for their events", table |-> "judge_assignments",
       cmd |-> "ALL", roles |-> {"authenticated"}, using |-> "judge", check |-> "none"],
      [name |-> "Judges can view their assignments", table |-> "judge_assignments", cmd |-> "SELECT",
       roles |-> {"anon", "authenticated"}, using |-> "true", check |-> "none"],
      [name |-> "Users can manage rounds for their events", table |-> "scoring_rounds", cmd |-> "ALL",
       roles |-> {"authenticated"}, using |-> "event", check |-> "none"],
      [name |-> "Judges can view rounds", table |-> "scoring_rounds", cmd |-> "SELECT",
       roles |-> {"anon", "authenticated"}, using |-> "true", check |-> "none"],
      [name |-> "Judges can manage their own scores", table |-> "scores", cmd |-> "ALL",
       roles |-> {"anon", "authenticated"}, using |-> "true", check |-> "true"],
      [name |-> "Event owners can view all scores", table |-> "scores", cmd |-> "SELECT",
       roles |-> {"authenticated"}, using |-> "team", check |-> "none"],
      [name |-> "Event owners can manage normalized scores", table |-> "normalized_scores", cmd |-> "ALL",
       roles |-> {"authenticated"}, using |-> "team", check |-> "none"],
      [name |-> "Users can view final results for their events", table |-> "final_results",
       cmd |-> "SELECT", roles |-> {"authenticated"}, using |-> "event", check |-> "none"],
      [name |-> "Users can manage final results for their events", table |-> "final_results",
       cmd |-> "INSERT", roles |-> {"authenticated"}, using |-> "none", check |-> "event"],
      [name |-> "Users can update final results for their events", table |-> "final_results",
       cmd |-> "UPDATE", roles |-> {"authenticated"}, using |-> "event", check |-> "event"] }

\* events.created_by = auth.uid()
OwnRow(row, uid) == SqlEq(row.created_by, uid)

\* EXISTS (SELECT 1 FROM events WHERE events.id = <t>.event_id
\*         AND events.created_by = auth.uid())
EventOwned(d, row, uid) ==
    \E e \in d["events"] : SqlEq(e.id, row.event_id) /\ SqlEq(e.created_by, uid)

\* EXISTS (SELECT 1 FROM judges j JOIN events e ON e.id = j.event_id
\*         WHERE j.id = <t>.judge_id AND e.created_by = auth.uid())
JudgeEventOwned(d, row, uid) ==
    \E j \in d["judges"] :
        /\ SqlEq(j.id, row.judge_id)
        /\ \E e \in d["events"] : SqlEq(e.id, j.event_id) /\ SqlEq(e.created_by, uid)

\* EXISTS (SELECT 1 FROM teams t JOIN events e ON e.id = t.event_id
\*         WHERE t.id = <t>.team_id AND e.created_by = auth.uid())
TeamEventOwned(d, row, uid) ==
    \E t \in d["teams"] :
        /\ SqlEq(t.id, row.team_id)
        /\ \E e \in d["events"] : SqlEq(e.id, t.event_id) /\ SqlEq(e.created_by, uid)

PolicyExpr(tag, d, row, uid) ==
    CASE tag = "true" -> TRUE
      [] tag = "own" -> OwnRow(row, uid)
      [] tag = "event" -> EventOwned(d, row, uid)
      [] tag = "judge" -> JudgeEventOwned(d, row, uid)
      [] tag = "team" -> TeamEventOwned(d, row, uid)
      [] OTHER -> FALSE

\* The policies that apply to command cmd of caller c on table t.
Applicable(t, cmd, c) ==
    {p \in Policies : p.table = t /\ p.cmd \in {cmd, "ALL"} /\ c.role \in p.roles}

\* USING: which existing rows the command may see.
UsingOk(d, c, t, cmd, row) ==
    \E p \in Applicable(t, cmd, c) : PolicyExpr(p.using, d, row, c.uid)

\* WITH CHECK: which new rows the command may write; a policy without a
\* WITH CHECK clause checks its USING expression.
CheckOk(d, c, t, cmd, row) ==
    \E p \in Applicable(t, cmd, c) :
        PolicyExpr(IF p.check = "none" THEN p.using ELSE p.check, d, row, c.uid)

SelectAllowed(d, c, t, row) == UsingOk(d, c, t, "SELECT", row)

InsertAllowed(d, c, t, row) == CheckOk(d, c, t, "INSERT", row)

\* UPDATE ... WHERE id = ...: the row must be visible to SELECT and to UPDATE,
\* and the new row must pass WITH CHECK.
UpdateAllowed(d, c, t, old, new) ==
    /\ SelectAllowed(d, c, t, old)
    /\ UsingOk(d, c, t, "UPDATE", old)
    /\ CheckOk(d, c, t, "UPDATE", new)

DeleteAllowed(d, c, t, row) ==
    /\ SelectAllowed(d, c, t, row)
    /\ UsingOk(d, c, t, "DELETE", row)

(***************************************************************************)
(* ON DELETE.  D is a set of <<table, id>> being deleted.                   *)
(***************************************************************************)
\* D and the rows that reference a row of D through a foreign key of fks.
RefStep(d, D, fks) ==
    D \cup UNION { { <<fk.table, r.id>> :
                        r \in {x \in d[fk.table] : <<fk.ref, x[fk.column]>> \in D} } :
                   fk \in fks }

CascadeStep(d, D) ==
    RefStep(d, D, {f \in ForeignKeys : f.onDelete = "CASCADE"})

RECURSIVE CascadeClosure(_, _)
CascadeClosure(d, D) ==
    LET E == CascadeStep(d, D)
    IN  IF E = D THEN D ELSE CascadeClosure(d, E)

\* NO ACTION is checked at the end of the statement, after the cascades: a
\* surviving row that still references a deleted row fails the statement.
Blocked(d, D) ==
    \E fk \in {f \in ForeignKeys : f.onDelete = "NO ACTION"} :
        \E r \in d[fk.table] :
            /\ <<fk.table, r.id>> \notin D
            /\ <<fk.ref, r[fk.column]>> \in D

Without(d, D) == [t \in Tables |-> {r \in d[t] : <<t, r.id>> \notin D}]

\* DELETE FROM t WHERE id = row.id, with the privileges of the table owner
\* for the referential actions.
DeleteResult(d, t, row) ==
    LET D == CascadeClosure(d, {<<t, row.id>>})
    IN  [ok |-> ~ Blocked(d, D), db |-> IF Blocked(d, D) THEN d ELSE Without(d, D)]

(***************************************************************************)
(* The SQL commands a caller issues through the API.                        *)
(***************************************************************************)
\* The creator of the event a row belongs to, by the chain the table's own
\* policy follows; NULL when there is none.
CreatedBy(d, eid) ==
    IF \E e \in d["events"] : e.id = eid
    THEN (CHOOSE e \in d["events"] : e.id = eid).created_by
    ELSE NULL

EventOf(d, t, id) ==
    IF \E r \in d[t] : r.id = id
    THEN (CHOOSE r \in d[t] : r.id = id).event_id
    ELSE NULL

Creator(d, t, row) ==
    CASE t = "events" -> row.created_by
      [] t = "judge_assignments" -> CreatedBy(d, EventOf(d, "judges", row.judge_id))
      [] t \in {"scores", "normalized_scores"} ->
            CreatedBy(d, EventOf(d, "teams", row.team_id))
      [] OTHER -> CreatedBy(d, row.event_id)

\* What the caller observes of a command, with the creator of the row's
\* event at the time and, for scores, the value written.
Outcome(t, cmd, c, allowed, ok, creator, score) ==
    [table |-> t, cmd |-> cmd, caller |-> c, allowed |-> allowed, ok |-> ok,
     creator |-> creator, score |-> score]

ScoreOf(t, row) == IF t = "scores" THEN row.score ELSE NULL

Insert(c, t, input) ==
    /\ Cardinality(db[t]) < Cap(t)
    /\ DbFrame
    /\ LET row == [input EXCEPT !.id = FreshId(db, t)]
           allowed == InsertAllowed(db, c, t, row)
           ok == allowed /\ ConstraintsOk(db, t, row)
       IN  /\ db' = IF ok THEN [db EXCEPT ![t] = @ \cup {row}] ELSE db
           /\ last' = Outcome(t, "INSERT", c, allowed, ok, Creator(db, t, row),
                              ScoreOf(t, row))

Update(c, t, old, input) ==
    /\ old \in db[t]
    /\ DbFrame
    /\ LET row == [input EXCEPT !.id = old.id]
           allowed == UpdateAllowed(db, c, t, old, row)
           ok == allowed /\ ConstraintsOk(db, t, row)
       IN  /\ db' = IF ok THEN [db EXCEPT ![t] = (@ \ {old}) \cup {row}] ELSE db
           /\ last' = Outcome(t, "UPDATE", c, allowed, ok, Creator(db, t, old),
                              ScoreOf(t, row))

Delete(c, t, old) ==
    /\ old \in db[t]
    /\ DbFrame
    /\ LET allowed == DeleteAllowed(db, c, t, old)
           res == DeleteResult(db, t, old)
           ok == allowed /\ res.ok
       IN  /\ db' = IF ok THEN res.db ELSE db
           /\ last' = Outcome(t, "DELETE", c, allowed, ok, Creator(db, t, old), NULL)

Select(c, t, old) ==
    /\ old \in db[t]
    /\ DbFrame
    /\ db' = db
    /\ last' = Outcome(t, "SELECT", c, SelectAllowed(db, c, t, old),
                       SelectAllowed(db, c, t, old), Creator(db, t, old), NULL)

\* INSERT INTO scores ... ON CONFLICT (judge_id, team_id, round_id,
\* criterion_name) DO UPDATE SET score = EXCLUDED.score
Upsert(c, input) ==
    LET t == "scores"
        conflicts == {r \in db[t] :
                        \A k \in {"judge_id", "team_id", "round_id", "criterion_name"} :
                            SqlEq(r[k], input[k])}
    IN  IF conflicts = {}
        THEN /\ Insert(c, t, input)
        ELSE \E old \in conflicts :
                LET row == [old EXCEPT !.score = input.score]
                    allowed == /\ InsertAllowed(db, c, t, [input EXCEPT !.id = old.id])
                               /\ UpdateAllowed(db, c, t, old, row)
                    ok == allowed /\ ConstraintsOk(db, t, row)
                IN  /\ DbFrame
                    /\ db' = IF ok THEN [db EXCEPT ![t] = (@ \ {old}) \cup {row}] ELSE db
                    /\ last' = Outcome(t, "UPSERT", c, allowed, ok, Creator(db, t, old),
                                       input.score)

NoOutcome == Outcome("none", "none", Anon, FALSE, FALSE, NULL, NULL)

EmptyDb == [t \in Tables |-> {}]

(***************************************************************************)
(* The score ledger: a seeded event with one category, team, judge and      *)
(* round, and callers submitting scores.                                    *)
(***************************************************************************)
SeedDb ==
    [EmptyDb EXCEPT
        !["events"] = {[id |-> Some(1), created_by |-> Some(1)]},
        !["categories"] = {[id |-> Some(1), event_id |-> Some(1)]},
        !["teams"] = {[id |-> Some(1), event_id |-> Some(1), category_id |-> Some(1)]},
        !["judges"] = {[id |-> Some(1), event_id |-> Some(1), access_token |-> Some("tok1")]},
        !["scoring_rounds"] = {[id |-> Some(1), event_id |-> Some(1),
                                round_number |-> Some(1), status |-> Some("active")]}]

\* Submitted score values: inside, on the edges of and outside [0,10], or none.
ScoreValues == {NULL} \cup {Some(n) : n \in {-1, 0, 10, 11}}

ScoreInputs ==
    { [id |-> NULL, judge_id |-> j, team_id |-> Some(1), category_id |-> Some(1),
       round_id |-> Some(1), criterion_name |-> Some("idea"), score |-> v] :
         j \in {NULL, Some(1)}, v \in ScoreValues }

ScoreCallers == {Anon, User(1)}

InitScores ==
    /\ db = SeedDb
    /\ last = NoOutcome
    /\ FnIdle /\ MirrorIdle /\ AuthIdle

NextScores ==
    \E c \in ScoreCallers, input \in ScoreInputs :
         \/ Insert(c, "scores", input)
         \/ Upsert(c, input)
         \/ \E old \in db["scores"] : Update(c, "scores", old, input)
         \/ \E old \in db["scores"] : Delete(c, "scores", old)

SpecScores == InitScores /\ [][NextScores]_vars

\* Every stored score has a value in [0,10].
ScoresInRange ==
    \A r \in db["scores"] : r.score # NULL /\ r.score[1] >= 0 /\ r.score[1] <= 10

\* A write of a score with no value, or one outside [0,10], is rejected.
OutOfRangeRejected ==
    (/\ last.table = "scores"
     /\ last.cmd \in {"INSERT", "UPDATE", "UPSERT"}
     /\ (last.score = NULL \/ last.score[1] < 0 \/ last.score[1] > 10))
    => ~ last.ok

\* C1: in every reachable state every scores row has a value v with
\* 0 <= v <= 10; an insert, update or upsert whose value is missing or
\* outside [0,10] is rejected, and a rejected command leaves the table as
\* it was.
C1_ScoreRange ==
    /\ [](ScoresInRange /\ OutOfRangeRejected)
    /\ [][~ last'.ok => db'["scores"] = db["scores"]]_vars

\* C1 witness: an insert of 11 has just been rejected while the table holds
\* a row with the boundary value 10.
C1_Witness ==
    /\ last.table = "scores" /\ last.cmd = "INSERT"
    /\ last.score = Some(11) /\ ~ last.ok
    /\ \E r \in db["scores"] : r.score = Some(10)

SameScoreKey(r1, r2) ==
    /\ r1.judge_id = r2.judge_id
    /\ r1.team_id = r2.team_id
    /\ r1.round_id = r2.round_id
    /\ r1.criterion_name = r2.criterion_name

\* C2 (as claimed): for every (judge, team, round, criterion) tuple the
\* schema admits, at most one scores row exists.
C2_AtMostOneScorePerTuple ==
    \A r1, r2 \in db["scores"] : SameScoreKey(r1, r2) => r1 = r2

\* Among rows whose judge, team and round are all set, the key is unique.
UniqueAmongSetKeys ==
    \A r1, r2 \in db["scores"] :
        (SameScoreKey(r1, r2) /\ r1.judge_id # NULL /\ r1.team_id # NULL /\ r1.round_id # NULL)
            => r1 = r2

(***************************************************************************)
(* The scoring round tracker: the seeded event and callers managing its     *)
(* rounds.                                                                  *)
(***************************************************************************)
RoundStatuses == {"pending", "active", "completed"}

RoundInputs ==
    { [id |-> NULL, event_id |-> Some(1), round_number |-> Some(n), status |-> Some(st)] :
         n \in {1, 2}, st \in RoundStatuses \cup {"cancelled"} }

RoundCallers == {Anon, User(1), User(2)}

InitRounds ==
    /\ db = [SeedDb EXCEPT !["scoring_rounds"] = {}]
    /\ last = NoOutcome
    /\ FnIdle /\ MirrorIdle /\ AuthIdle

NextRounds ==
    \E c \in RoundCallers :
         \/ \E input \in RoundInputs : Insert(c, "scoring_rounds", input)
         \/ \E input \in RoundInputs, old \in db["scoring_rounds"] :
               Update(c, "scoring_rounds", old, input)
         \/ \E old \in db["scoring_rounds"] : Delete(c, "scoring_rounds", old)
         \/ \E old \in db["scoring_rounds"] : Select(c, "scoring_rounds", old)

SpecRounds == InitRounds /\ [][NextRounds]_vars

\* At most one round per (event, round_number), for rounds of an event.
OneRoundPerNumber ==
    \A r1, r2 \in db["scoring_rounds"] :
        (r1.event_id # NULL /\ r1.event_id = r2.event_id /\ r1.round_number = r2.round_number)
            => r1 = r2

RoundStatusKnown ==
    \A r \in db["scoring_rounds"] : r.status # NULL /\ r.status[1] \in RoundStatuses

StatusRank(st) ==
    CASE st = Some("pending") -> 1
      [] st = Some("active") -> 2
      [] st = Some("completed") -> 3
      [] OTHER -> 0

\* C9 (as claimed): at most one round per (event, round_number), every
\* status is pending, active or completed, and a round's status never moves
\* backwards.
C9_RoundLifecycle ==
    /\ [](OneRoundPerNumber /\ RoundStatusKnown)
    /\ [][\A r \in db["scoring_rounds"] : \A q \in db'["scoring_rounds"] :
            r.id = q.id => StatusRank(q.status) >= StatusRank(r.status)]_vars

\* The backward move alone: between known statuses, no step lowers a status.
RoundStatusOnlyForward ==
    [][\A r \in db["scoring_rounds"] : \A q \in db'["scoring_rounds"] :
            (r.id = q.id /\ r.status[1] \in RoundStatuses /\ q.status[1] \in RoundStatuses)
                => StatusRank(q.status) >= StatusRank(r.status)]_vars

(***************************************************************************)
(* The registry: organizers creating events and their descendants, and      *)
(* deleting events.                                                         *)
(***************************************************************************)
Organizers == {User(1), User(2)}

RegistryInputs(t) ==
    CASE t = "events" ->
            { [id |-> NULL, created_by |-> u] : u \in {Some(1), Some(2)} }
      [] t = "categories" ->
            { [id |-> NULL, event_id |-> e] : e \in {Some(1), Some(2)} }
      [] t = "teams" ->
            { [id |-> NULL, event_id |-> e, category_id |-> c] :
                e \in {Some(1), Some(2)}, c \in {NULL, Some(1)} }
      [] t = "judges" ->
            { [id |-> NULL, event_id |-> Some(1), access_token |-> Some("tok1")] }
      [] t = "judge_assignments" ->
            { [id |-> NULL, judge_id |-> Some(1), category_id |-> Some(1),
               team_id |-> Some(1), round_number |-> Some(1)] }
      [] t = "scoring_rounds" ->
            { [id |-> NULL, event_id |-> Some(1), round_number |-> Some(1),
               status |-> Some("pending")] }
      [] t = "scores" ->
            { [id |-> NULL, judge_id |-> Some(1), team_id |-> Some(1),
               category_id |-> Some(1), round_id |-> Some(1),
               criterion_name |-> Some("idea"), score |-> Some(7)] }
      [] t = "normalized_scores" ->
            { [id |-> NULL, judge_id |-> Some(1), team_id |-> Some(1), round_id |-> Some(1)] }
      [] t = "final_results" ->
            { [id |-> NULL, event_id |-> e, team_id |-> Some(1)] : e \in {Some(1), Some(2)} }

InitRegistry ==
    /\ db = EmptyDb
    /\ last = NoOutcome
    /\ FnIdle /\ MirrorIdle /\ AuthIdle

NextRegistry ==
    \E c \in Organizers :
         \/ \E t \in Tables : \E input \in RegistryInputs(t) : Insert(c, t, input)
         \/ \E old \in db["events"] : Delete(c, "events", old)

SpecRegistry == InitRegistry /\ [][NextRegistry]_vars

\* The rows that belong to row <<t, id>> directly or through a chain of
\* foreign keys.
RECURSIVE Descendants(_, _)
Descendants(d, D) ==
    LET E == RefStep(d, D, ForeignKeys)
    IN  IF E = D THEN D ELSE Descendants(d, E)

\* C3 (as claimed): from every state, deleting an event as its creator
\* succeeds; afterwards no row that belonged to the event, directly or
\* through its foreign-key chain, remains, and all other rows are unchanged.
C3_EventDeleteCascades ==
    [][(last'.table = "events" /\ last'.cmd = "DELETE" /\ last'.allowed)
          => \E e \in db["events"] :
                /\ DeleteAllowed(db, last'.caller, "events", e)
                /\ db' = Without(db, Descendants(db, {<<"events", e.id>>}))]_vars

(***************************************************************************)
(* Access control: a populated event of user 1, and its creator, another    *)
(* user and an anonymous caller issuing every command on every table.       *)
(***************************************************************************)
PopulatedDb ==
    [SeedDb EXCEPT
        !["judge_assignments"] = RegistryInputs("judge_assignments"),
        !["scores"] = RegistryInputs("scores"),
        !["normalized_scores"] = RegistryInputs("normalized_scores"),
        !["final_results"] = {[id |-> NULL, event_id |-> Some(1), team_id |-> Some(1)]}]

\* The row of each table in the populated event, as a caller would write it.
AccessInputs(t) ==
    IF t = "events" THEN {[id |-> NULL, created_by |-> Some(1)]}
    ELSE {[r EXCEPT !.id = NULL] : r \in PopulatedDb[t]}

AccessCallers == {Anon, User(1), User(2)}

InitAccess ==
    /\ db = [t \in Tables |-> {[r EXCEPT !.id = Some(1)] : r \in PopulatedDb[t]}]
    /\ last = NoOutcome
    /\ FnIdle /\ MirrorIdle /\ AuthIdle

NextAccess ==
    \E c \in AccessCallers, t \in Tables :
         \/ \E input \in AccessInputs(t) : Insert(c, t, input)
         \/ \E input \in AccessInputs(t), old \in db[t] : Update(c, t, old, input)
         \/ \E old \in db[t] : Delete(c, t, old)
         \/ \E old \in db[t] : Select(c, t, old)

SpecAccess == InitAccess /\ [][NextAccess]_vars

IsCreator == SqlEq(last.creator, last.caller.uid)

\* C4 (as claimed): on every table but scores a write passes the policies
\* exactly when the caller created the row's event, and a read passes
\* exactly when the caller did or the table is judges, judge_assignments or
\* scoring_rounds; on scores every command of every caller passes.
C4_OnlyCreatorManages ==
    /\ (last.table \in Tables \ {"scores"} /\ last.cmd \in {"INSERT", "UPDATE", "DELETE"})
          => (last.allowed <=> IsCreator)
    /\ (last.table \in Tables \ {"scores"} /\ last.cmd = "SELECT")
          => (last.allowed <=>
                \/ IsCreator
                \/ last.table \in {"judges", "judge_assignments", "scoring_rounds"})
    /\ last.table = "scores" => last.allowed

\* C4 without the one command the policies leave out: the same statement
\* for every command but DELETE on final_results.
AccessExceptFinalResultsDelete ==
    (last.table = "final_results" /\ last.cmd = "DELETE") \/ C4_OnlyCreatorManages

(***************************************************************************)
(* send-judge-invitation (index.ts).  Texts are sequences of tokens: the    *)
(* characters JSON escapes are tokens of their own, runs of other           *)
(* characters of the template are one token.                                *)
(***************************************************************************)
MaxLen == 2

FieldNames == {"judgeName", "judgeEmail", "eventName", "accessToken", "dashboardUrl"}

Strings(alphabet) == UNION {[1..n -> alphabet] : n \in 0..MaxLen}

corsHeaders ==
    [h \in {"Access-Control-Allow-Origin", "Access-Control-Allow-Methods",
            "Access-Control-Allow-Headers"} |->
        CASE h = "Access-Control-Allow-Origin" -> "*"
          [] h = "Access-Control-Allow-Methods" -> "GET, POST, PUT, DELETE, OPTIONS"
          [] h = "Access-Control-Allow-Headers" ->
                "Content-Type, Authorization, X-Client-Info, Apikey"]

JsonHeaders == corsHeaders @@ ("Content-Type" :> "application/json")

\* What the request body is as JSON text: not JSON at all, the value null,
\* a number, or an object holding the fields in `present`.
ObjectBody(present, ev, tok) ==
    [kind |-> "object", present |-> present,
     fields |-> [judgeName |-> <<"Ana">>, judgeEmail |-> <<"a@x.com">>,
                 eventName |-> ev, accessToken |-> tok,
                 dashboardUrl |-> <<"https://d.example/judge">>]]

Bodies ==
    {[kind |-> "invalid"], [kind |-> "null"], [kind |-> "primitive"]}
    \cup {ObjectBody(present, ev, tok) :
             present \in {FieldNames} \cup {FieldNames \ {f} : f \in FieldNames},
             ev \in Strings({"a", "\""}), tok \in Strings({"t"})}

Requests == [method : {"OPTIONS", "POST", "PUT"}, body : Bodies]

\* await req.json(), then the destructuring of its value.
Throws(body) == body.kind \in {"invalid", "null"}

ThrownError(body) ==
    IF body.kind = "invalid"
    THEN [name |-> "SyntaxError", message |-> "Unexpected end of JSON input"]
    ELSE [name |-> "TypeError",
          message |-> "Cannot destructure property 'judgeName' of '(intermediate value)' as it is null."]

\* ${field} in a template literal: a field the body lacks is undefined.
Interpolate(body, f) ==
    IF body.kind = "object" /\ f \in body.present THEN body.fields[f] ELSE <<"undefined">>

RenderEmailNoToken(body) ==
    <<"\n", "<html><body><h2>Judge Invitation - ">> \o Interpolate(body, "eventName")
    \o <<"</h2>", "\n", "<p>Dear ">> \o Interpolate(body, "judgeName")
    \o <<",</p>", "\n", "<p>You have been invited to judge the event: <strong>">>
    \o Interpolate(body, "eventName")
    \o <<"</strong></p>", "\n", "<a href=", "\"">> \o Interpolate(body, "dashboardUrl")
    \o <<"\"", ">Access Judging Dashboard</a>", "\n", "Your access token: <code>">>
    \o Interpolate(body, "accessToken")
    \o <<"</code>", "\n", "</body></html>", "\n">>

RenderEmail(body) ==
    <<"\n", "<html><body><h2>Judge Invitation - ">> \o Interpolate(body, "eventName")
    \o <<"</h2>", "\n", "<p>Dear ">> \o Interpolate(body, "judgeName")
    \o <<",</p>", "\n", "<p>You have been invited to judge the event: <strong>">>
    \o Interpolate(body, "eventName")
    \o <<"</strong></p>", "\n", "<a href=", "\"">> \o Interpolate(body, "dashboardUrl")
    \o <<"?token=">> \o Interpolate(body, "accessToken")
    \o <<"\"", ">Access Judging Dashboard</a>", "\n", "Your access token: <code>">>
    \o Interpolate(body, "accessToken")
    \o <<"</code>", "\n", "</body></html>", "\n">>

Logs(body) ==
    << <<"Email would be sent to: ">> \o Interpolate(body, "judgeEmail"),
       <<"Event: ">> \o Interpolate(body, "eventName"),
       <<"Access Token: ">> \o Interpolate(body, "accessToken"),
       <<"Dashboard URL: ">> \o Interpolate(body, "dashboardUrl") >>

\* JSON.stringify of a string, without the enclosing quotes.
RECURSIVE Escape(_)
Escape(s) ==
    IF s = <<>> THEN <<>>
    ELSE (CASE Head(s) = "\"" -> <<"\\", "\"">>
            [] Head(s) = "\\" -> <<"\\", "\\">>
            [] Head(s) = "\n" -> <<"\\", "n">>
            [] OTHER -> <<Head(s)>>) \o Escape(Tail(s))

SuccessText(preview) ==
    <<"{", "\"success\":", "true", ",", "\"message\":", "\"">>
    \o Escape(<<"Invitation email sent successfully">>)
    \o <<"\"", ",", "\"preview\":", "\"">> \o Escape(preview) \o <<"\"", "}">>

ErrorText(message) ==
    <<"{", "\"success\":", "false", ",", "\"error\":", "\"">>
    \o Escape(<<message>>) \o <<"\"", "}">>

ErrorMessage(error) ==
    IF error.message # "" THEN error.message ELSE "Failed to send invitation"

OptionsResponse == [status |-> 200, headers |-> corsHeaders, body |-> <<>>]

SuccessResponse(body) ==
    [status |-> 200, headers |-> JsonHeaders, body |-> SuccessText(RenderEmail(body))]

CatchBlockDefaultStatus(error) ==
    [response |-> [status |-> 200, headers |-> JsonHeaders,
                   body |-> ErrorText(ErrorMessage(error))],
     console |-> << <<"Error sending invitation:", error.name>> >>]

CatchBlock(error) ==
    [response |-> [status |-> 500, headers |-> JsonHeaders,
                   body |-> ErrorText(ErrorMessage(error))],
     console |-> << <<"Error sending invitation:", error.name>> >>]

TryBlock(body) ==
    IF Throws(body) THEN CatchBlock(ThrownError(body))
    ELSE [response |-> SuccessResponse(body), console |-> Logs(body)]

\* The handler up to its first await: OPTIONS is answered at once, any other
\* method starts reading the body.
Receive(r) ==
    /\ fnPc \in {"idle", "done"}
    /\ FnFrame
    /\ req' = r
    /\ console' = <<>>
    /\ IF r.method = "OPTIONS"
       THEN /\ responses' = <<OptionsResponse>>
            /\ bodyUsed' = FALSE
            /\ fnPc' = "done"
       ELSE /\ responses' = <<>>
            /\ bodyUsed' = TRUE
            /\ fnPc' = "json"

\* req.json() settles: the rest of the try block, or the catch block.
JsonSettles ==
    /\ fnPc = "json"
    /\ FnFrame
    /\ LET out == TryBlock(req.body) IN
          /\ responses' = <<out.response>>
          /\ console' = out.console
    /\ fnPc' = "done"
    /\ UNCHANGED <<req, bodyUsed>>

InitInvite ==
    /\ FnIdle
    /\ DbIdle /\ MirrorIdle /\ AuthIdle

NextInvite ==
    \/ \E r \in Requests : Receive(r)
    \/ JsonSettles

SpecInvite == InitInvite /\ [][NextInvite]_vars

(***************************************************************************)
(* The client's reading of a response body: JSON.parse of the text.         *)
(***************************************************************************)
RECURSIVE ClosingQuote(_, _)
ClosingQuote(s, i) ==
    IF i > Len(s) THEN 0
    ELSE IF s[i] = "\"" THEN i
    ELSE IF s[i] = "\\" THEN ClosingQuote(s, i + 2)
    ELSE ClosingQuote(s, i + 1)

RECURSIVE Unescape(_)
Unescape(s) ==
    IF s = <<>> THEN <<>>
    ELSE IF Head(s) = "\\" /\ Len(s) >= 2
    THEN <<IF s[2] = "n" THEN "\n" ELSE s[2]>> \o Unescape(SubSeq(s, 3, Len(s)))
    ELSE <<Head(s)>> \o Unescape(Tail(s))

ReadString(s) ==
    LET q == ClosingQuote(s, 1) IN
    [ok |-> q > 0,
     value |-> IF q > 0 THEN Unescape(SubSeq(s, 1, q - 1)) ELSE <<>>,
     rest |-> IF q > 0 THEN SubSeq(s, q + 1, Len(s)) ELSE <<>>]

Unparsed == [valid |-> FALSE, success |-> FALSE, message |-> <<>>, preview |-> <<>>, error |-> <<>>]

HasPrefix(s, prefix) == Len(s) >= Len(prefix) /\ SubSeq(s, 1, Len(prefix)) = prefix

Drop(s, n) == SubSeq(s, n + 1, Len(s))

ParseResponse(text) ==
    IF HasPrefix(text, <<"{", "\"success\":", "true", ",", "\"message\":", "\"">>)
    THEN LET m == ReadString(Drop(text, 6)) IN
         IF m.ok /\ HasPrefix(m.rest, <<",", "\"preview\":", "\"">>)
         THEN LET p == ReadString(Drop(m.rest, 3)) IN
              IF p.ok /\ p.rest = <<"}">>
              THEN [Unparsed EXCEPT !.valid = TRUE, !.success = TRUE,
                                    !.message = m.value, !.preview = p.value]
              ELSE Unparsed
         ELSE Unparsed
    ELSE IF HasPrefix(text, <<"{", "\"success\":", "false", ",", "\"error\":", "\"">>)
    THEN LET e == ReadString(Drop(text, 6)) IN
         IF e.ok /\ e.rest = <<"}">>
         THEN [Unparsed EXCEPT !.valid = TRUE, !.error = e.value]
         ELSE Unparsed
    ELSE Unparsed

Contains(hay, needle) ==
    \E i \in 0..(Len(hay) - Len(needle)) : SubSeq(hay, i + 1, i + Len(needle)) = needle

Served == fnPc = "done" /\ Len(responses) = 1

\* C5: a non-OPTIONS request whose body is a JSON object with all five
\* fields is answered with status 200, success = true, a message, and a
\* preview that contains the event name, the access token and the link
\* dashboardUrl?token=accessToken; the response is that function of the
\* request whatever was served before, and only the console is written to.
C5_InvitationPreview ==
    (fnPc = "done" /\ req.method # "OPTIONS" /\ req.body.kind = "object"
        /\ req.body.present = FieldNames)
    => /\ Len(responses) = 1
       /\ responses[1] = SuccessResponse(req.body)
       /\ Len(console) = 4
       /\ responses[1].status = 200
       /\ LET r == ParseResponse(responses[1].body)
              f == req.body.fields
          IN  /\ r.valid /\ r.success
              /\ r.message # <<>>
              /\ Contains(r.preview, f.eventName)
              /\ Contains(r.preview, f.accessToken)
              /\ Contains(r.preview, f.dashboardUrl \o <<"?token=">> \o f.accessToken)

C5_Witness ==
    /\ Served
    /\ req.method = "POST"
    /\ req.body.kind = "object"
    /\ req.body.present = FieldNames
    /\ req.body.fields.eventName = <<"a", "\"">>
    /\ req.body.fields.accessToken = <<"t", "t">>
    /\ responses[1].status = 200
    /\ Len(console) = 4

\* C6: every request gets exactly one response, carrying the CORS headers;
\* OPTIONS gets 200 with an empty body and the request body unread; a body
\* whose parsing or destructuring throws gets 500 with success = false and
\* an error message string; every other request gets 200.
C6_HandlerTotal ==
    /\ fnPc \in {"idle", "json", "done"}
    /\ Len(responses) <= 1
    /\ fnPc = "done" =>
          /\ Len(responses) = 1
          /\ responses[1].headers["Access-Control-Allow-Origin"] = "*"
          /\ \A h \in DOMAIN corsHeaders : responses[1].headers[h] = corsHeaders[h]
          /\ req.method = "OPTIONS" =>
                /\ responses[1].status = 200
                /\ responses[1].body = <<>>
                /\ ~ bodyUsed
          /\ (req.method # "OPTIONS" /\ req.body.kind \in {"invalid", "null"}) =>
                /\ responses[1].status = 500
                /\ LET r == ParseResponse(responses[1].body) IN
                      r.valid /\ ~ r.success /\ r.error # <<>>
          /\ (req.method # "OPTIONS" /\ req.body.kind \notin {"invalid", "null"}) =>
                responses[1].status = 200

C6_Witness ==
    /\ Served
    /\ req.method = "PUT"
    /\ req.body.kind = "null"
    /\ responses[1].status = 500
    /\ ParseResponse(responses[1].body).error
          = <<"Cannot destructure property 'judgeName' of '(intermediate value)' as it is null.">>
    /\ console = << <<"Error sending invitation:", "TypeError">> >>

(***************************************************************************)
(* AppProvider: the local-storage mirror.  A collection is a sequence of    *)
(* item tokens; a stored text is a sequence of JSON tokens.  Each tab runs   *)
(* its callbacks to completion, so one callback is one step.                 *)
(***************************************************************************)
MaxEdits == 1

Items == {"1", "2", "3", "5", "7", "8"}

Seed(k) ==
    CASE k = "events" -> <<"1">>
      [] k = "teams" -> <<"1", "2">>
      [] k = "judges" -> <<"1">>
      [] k = "categories" -> <<"1", "2", "3">>
      [] k = "evaluations" -> <<>>

\* JSON.stringify of an array.
RECURSIVE Join(_)
Join(c) ==
    IF Len(c) <= 1 THEN c ELSE <<Head(c), ",">> \o Join(Tail(c))

JsonStringify(c) == <<"[">> \o Join(c) \o <<"]">>

\* JSON.parse: null, an array, or a SyntaxError.
ItemList(m) ==
    \/ m = <<>>
    \/ /\ Len(m) % 2 = 1
       /\ \A j \in 1..Len(m) : IF j % 2 = 1 THEN m[j] \in Items ELSE m[j] = ","

JsonParse(text) ==
    IF text = <<"null">> THEN [ok |-> TRUE, isArray |-> FALSE, items |-> <<>>]
    ELSE IF /\ Len(text) >= 2
            /\ text[1] = "[" /\ text[Len(text)] = "]"
            /\ ItemList(SubSeq(text, 2, Len(text) - 1))
    THEN [ok |-> TRUE, isArray |-> TRUE,
          items |-> [j \in 1..(Len(text) \div 2) |-> text[2 * j]]]
    ELSE [ok |-> FALSE, isArray |-> FALSE, items |-> <<>>]

\* localStorage.getItem(k) handed to JSON.parse: an absent key is null,
\* which JSON.parse reads as the text null.
GetItemText(st, k) == IF st[k] = NULL THEN <<"null">> ELSE st[k][1]

\* JSON.parse(localStorage.getItem(k)) || seed
LoadKey(st, k) ==
    LET parsed == JsonParse(GetItemText(st, k)) IN
    [threw |-> ~ parsed.ok,
     value |-> IF parsed.ok /\ parsed.isArray THEN parsed.items ELSE Seed(k)]

\* loadData: the five setters in order; a SyntaxError ends it.
loadData(st) ==
    [threw |-> \E k \in Keys : LoadKey(st, k).threw,
     values |-> [k \in Keys |-> LoadKey(st, k).value]]

\* The dependencies of saveData: a change to one of them makes a new
\* callback, and the effect on [saveData] runs it.
SaveDepsNoEvaluations == {"events", "teams", "judges", "categories"}

SaveDeps == {"events", "teams", "judges", "categories", "evaluations"}

\* saveData
saveData(c) == [k \in Keys |-> Some(JsonStringify(c[k]))]

InitialState == [k \in Keys |-> <<>>]

\* The first commit of a provider: the effect calling loadData, then the
\* effect calling saveData with the state of the first render.  When
\* loadData throws the provider is torn down; whether the second effect ran
\* before that is left open.
Mount(i) ==
    /\ tabPc[i] = "unmounted"
    /\ MirrorFrame
    /\ LET loaded == loadData(storage) IN
          IF loaded.threw
          THEN /\ tabPc' = [tabPc EXCEPT ![i] = "crashed"]
               /\ \/ UNCHANGED <<storage, lastSaver>>
                  \/ /\ storage' = saveData(InitialState)
                     /\ lastSaver' = i
               /\ UNCHANGED <<mem, dirty>>
          ELSE /\ tabPc' = [tabPc EXCEPT ![i] = "mounted"]
               /\ storage' = saveData(InitialState)
               /\ lastSaver' = i
               /\ mem' = [mem EXCEPT ![i] = loaded.values]
               /\ dirty' = [dirty EXCEPT ![i] = TRUE]
    /\ UNCHANGED edits

NewItem(i) == IF i = 1 THEN "7" ELSE "8"

\* A consumer calls one of the setters of the context with a new array.
SetCollection(i, k) ==
    /\ tabPc[i] = "mounted"
    /\ MirrorFrame
    /\ edits[i] < MaxEdits
    /\ mem' = [mem EXCEPT ![i][k] = Append(@, NewItem(i))]
    /\ dirty' = [dirty EXCEPT ![i] = @ \/ k \in SaveDeps]
    /\ edits' = [edits EXCEPT ![i] = @ + 1]
    /\ UNCHANGED <<storage, tabPc, lastSaver>>

\* The effect on [saveData] runs after a render that changed a dependency.
Save(i) ==
    /\ tabPc[i] = "mounted"
    /\ MirrorFrame
    /\ dirty[i]
    /\ storage' = saveData(mem[i])
    /\ lastSaver' = i
    /\ dirty' = [dirty EXCEPT ![i] = FALSE]
    /\ UNCHANGED <<tabPc, mem, edits>>

\* What local storage may hold when the first tab opens.
InitialStores ==
    LET absent == [k \in Keys |-> NULL] IN
    {absent} \cup
    {[absent EXCEPT ![k] = Some(text)] :
        k \in {"events", "teams"},
        text \in {<<"[">>, <<"null">>, JsonStringify(<<"5">>)}}

InitMirror ==
    /\ storage \in InitialStores
    /\ tabPc = [i \in Tabs |-> "unmounted"]
    /\ mem = [i \in Tabs |-> InitialState]
    /\ dirty = [i \in Tabs |-> FALSE]
    /\ lastSaver = 0
    /\ edits = [i \in Tabs |-> 0]
    /\ DbIdle /\ FnIdle /\ AuthIdle

NextMirror ==
    \E i \in Tabs :
       \/ Mount(i)
       \/ \E k \in Keys : SetCollection(i, k)
       \/ Save(i)

SpecMirror == InitMirror /\ [][NextMirror]_vars

Unparsable(st, k) == st[k] # NULL /\ ~ JsonParse(st[k][1]).ok

\* C7 (as claimed): loading always completes with all five collections set,
\* and a key that is absent or whose text fails to parse yields its seed.
C7_LoadFallsBackToSeed ==
    [][\A i \in Tabs :
          (tabPc[i] = "unmounted" /\ tabPc'[i] # "unmounted")
          => /\ tabPc'[i] = "mounted"
             /\ \A k \in Keys :
                   (storage[k] = NULL \/ Unparsable(storage, k))
                   => mem'[i][k] = Seed(k)]_vars

\* The part of C7 about absent keys alone: a load that completes sets every
\* collection whose key is absent to its seed.
AbsentKeyLoadsSeed ==
    [][\A i \in Tabs :
          (tabPc[i] = "unmounted" /\ tabPc'[i] = "mounted")
          => \A k \in Keys : storage[k] = NULL => mem'[i][k] = Seed(k)]_vars

MaxFetches == 2

AuthUsers == {1, 2}

RemoveAt(q, j) == SubSeq(q, 1, j - 1) \o SubSeq(q, j + 1, Len(q))

\* The effect of the first commit: initAuth() runs up to its first await
\* and the callback is subscribed.
StartAuth ==
    /\ initPc = "start"
    /\ AuthFrame
    /\ initPc' = "getSession"
    /\ UNCHANGED <<user, session, initFor, fetches, lastEvent, logoutPc, loading>>

\* initAuth: getSession() resolves.
GetSessionResolves ==
    /\ initPc = "getSession"
    /\ AuthFrame
    /\ IF session # NULL
       THEN /\ initFor' = session
            /\ initPc' = "profile"
            /\ UNCHANGED loading
       ELSE /\ initPc' = "done"
            /\ loading' = FALSE
            /\ UNCHANGED initFor
    /\ UNCHANGED <<user, session, fetches, lastEvent, logoutPc>>

\* initAuth: the profile query resolves, with a profile or with none.
InitProfileResolves(found) ==
    /\ initPc = "profile"
    /\ AuthFrame
    /\ user' = IF found THEN initFor ELSE user
    /\ loading' = FALSE
    /\ initPc' = "done"
    /\ initFor' = NULL
    /\ UNCHANGED <<session, fetches, lastEvent, logoutPc>>

\* The callback receives SIGNED_IN and starts its profile query.
SignedIn(u) ==
    /\ initPc # "start"
    /\ AuthFrame
    /\ Len(fetches) < MaxFetches
    /\ session' = Some(u)
    /\ lastEvent' = "SIGNED_IN"
    /\ fetches' = Append(fetches, u)
    /\ UNCHANGED <<user, initPc, initFor, logoutPc, loading>>

\* The profile query of a callback resolves, with a profile or with none.
ProfileResolves(j, found) ==
    /\ j \in 1..Len(fetches)
    /\ AuthFrame
    /\ user' = IF found THEN Some(fetches[j]) ELSE user
    /\ fetches' = RemoveAt(fetches, j)
    /\ UNCHANGED <<session, initPc, initFor, lastEvent, logoutPc, loading>>

\* The callback receives SIGNED_OUT (the session ended elsewhere).
SignedOut ==
    /\ initPc # "start"
    /\ AuthFrame
    /\ session # NULL
    /\ session' = NULL
    /\ lastEvent' = "SIGNED_OUT"
    /\ user' = NULL
    /\ UNCHANGED <<initPc, initFor, fetches, logoutPc, loading>>

login(u) ==
    /\ initPc # "start"
    /\ AuthFrame
    /\ user' = Some(u)
    /\ UNCHANGED <<session, initPc, initFor, fetches, lastEvent, logoutPc, loading>>

\* logout up to its await.
LogoutStart ==
    /\ initPc # "start"
    /\ AuthFrame
    /\ logoutPc = "idle"
    /\ logoutPc' = "signOut"
    /\ UNCHANGED <<user, session, initPc, initFor, fetches, lastEvent, loading>>

\* auth.signOut() resolves: the session is gone, the callback has received
\* SIGNED_OUT, and logout goes on to setUser(null).
LogoutResolves ==
    /\ logoutPc = "signOut"
    /\ AuthFrame
    /\ session' = NULL
    /\ lastEvent' = "SIGNED_OUT"
    /\ user' = NULL
    /\ logoutPc' = "idle"
    /\ UNCHANGED <<initPc, initFor, fetches, loading>>

InitAuth ==
    /\ user = NULL
    /\ session \in {NULL} \cup {Some(u) : u \in AuthUsers}
    /\ initPc = "start"
    /\ initFor = NULL
    /\ fetches = <<>>
    /\ lastEvent = "none"
    /\ logoutPc = "idle"
    /\ loading = TRUE
    /\ DbIdle /\ FnIdle /\ MirrorIdle

NextAuth ==
    \/ StartAuth
    \/ GetSessionResolves
    \/ \E found \in BOOLEAN : InitProfileResolves(found)
    \/ \E u \in AuthUsers : SignedIn(u)
    \/ \E j \in 1..MaxFetches, found \in BOOLEAN : ProfileResolves(j, found)
    \/ SignedOut
    \/ \E u \in AuthUsers : login(u)
    \/ LogoutStart
    \/ LogoutResolves

SpecAuth == InitAuth /\ [][NextAuth]_vars

\* C10 (as claimed): while SIGNED_OUT is the last auth event and the user
\* is null, a profile query that resolves -- initAuth's or a callback's --
\* leaves the user null.
C10_SignedOutStaysNull ==
    [][(/\ lastEvent = "SIGNED_OUT" /\ lastEvent' = "SIGNED_OUT"
        /\ user = NULL
        /\ (fetches' # fetches \/ initPc' # initPc))
       => user' = NULL]_vars

====
